---------------------------- MODULE Spec2Model ----------------------------
(* HSMS packet envelope (hsmsPackets.py) and the SECS stream/function      *)
(* dispatch of secsDefaultHandler (secsHandler.py).                        *)
(*                                                                         *)
(* Spec        : a sender builds a header with one of the header classes,  *)
(*               optionally assigns header attributes, encodes the packet  *)
(*               and the receiver decodes the bytes; the transport may     *)
(*               also deliver arbitrary bytes to decode.                   *)
(* SpecHandler : streamFunction / secsDecode lookups of a handler whose    *)
(*               two class tables were filled at class creation.           *)
EXTENDS Integers, Sequences, FiniteSets, TLC

VARIABLES
    pc,          \* position of the codec scenario
    packet,      \* the sender's HsmsPacket: [header, data]
    ctor,        \* the header class the sender called and its arguments
    assigned,    \* attribute assignments made on packet.header since construction
    text,        \* the byte string on the wire (encode's result or received bytes)
    sent,        \* TRUE iff text is what encode returned for packet
    encodes,     \* encode calls made on packet so far
    decoded,     \* the HsmsPacket returned by decode
    isHost,                        \* secsDefaultHandler.isHost
    secsStreamsFunctionsHost,      \* class attribute: stream -> function -> class
    secsStreamsFunctionsEquipment, \* class attribute: stream -> function -> class
    call,        \* the last streamFunction / secsDecode call and what it returned
    before,      \* what the preceding call returned if it was the same call, else NoCall
    calls        \* number of calls made so far

codecVars   == <<pc, packet, ctor, assigned, text, sent, encodes, decoded>>
handlerVars == <<isHost, secsStreamsFunctionsHost, secsStreamsFunctionsEquipment, call,
                 before, calls>>
vars        == <<pc, packet, ctor, assigned, text, sent, encodes, decoded, isHost,
                 secsStreamsFunctionsHost, secsStreamsFunctionsEquipment, call, before, calls>>

-----------------------------------------------------------------------------
(* Bounds of the model *)

\* longest payload a sender attaches / the transport delivers
MaxDataLen == 1
\* direct attribute assignments on a header after its construction
MaxAssign == 1
\* streamFunction / secsDecode calls in one behaviour
MaxCalls == 3
\* successive encode calls on one packet
MaxEncodes == 2

-----------------------------------------------------------------------------
(* struct: the format ">LHBBBBL<n>s" *)

\* number of bytes of the fixed part of the format (4+2+1+1+1+1+4)
HeaderSize == 14

RECURSIVE Pow256(_)
Pow256(n) == IF n = 0 THEN 1 ELSE 256 * Pow256(n - 1)

\* A Python integer too wide for a machine word is kept as two parts,
\* value = hi * 65536 + lo with lo in 0..65535 (hi carries the sign).
Wide(hi, lo) == [hi |-> hi, lo |-> lo]
ToWide(n) == Wide(n \div 65536, n % 65536)

\* InRange of a pack that masks the value to the field instead of refusing it
InRangeMasking(v, n) == TRUE

\* an unsigned standard-size integer field of n bytes accepts 0 .. 256^n - 1
InRange(v, n) == 0 <= v /\ v < Pow256(n)

\* the same for the 4-byte format L
InRangeL(w) == InRange(w.hi, 2)

\* PackUInt with the byte order reversed (format "<" for ">")
PackUIntLittleEndian(v, n) == [i \in 1..n |-> (v \div Pow256(i - 1)) % 256]

\* big-endian bytes of v in n bytes (v in range)
PackUInt(v, n) == [i \in 1..n |-> (v \div Pow256(n - i)) % 256]

\* big-endian bytes of the 4-byte format L
PackL(w) == PackUInt(w.hi, 2) \o PackUInt(w.lo, 2)

\* big-endian value of the n bytes of s starting at index from
RECURSIVE UnpackUInt(_, _, _)
UnpackUInt(s, from, n) ==
    IF n = 0 THEN 0
    ELSE UnpackUInt(s, from, n - 1) * 256 + s[from + n - 1]

\* big-endian value of the 4-byte format L at index from
UnpackL(s, from) == Wide(UnpackUInt(s, from, 2), UnpackUInt(s, from + 2, 2))

\* struct.pack(">LHBBBBL%ds" % len(data), ...): struct.error when an integer
\* does not fit its field, else the bytes
struct_pack(length, sessionID, stream, function, pType, sType, system, data) ==
    IF /\ InRangeL(length) /\ InRange(sessionID, 2) /\ InRange(stream, 1)
       /\ InRange(function, 1) /\ InRange(pType, 1) /\ InRange(sType, 1)
       /\ InRangeL(system)
    THEN [error |-> FALSE,
          bytes |-> PackL(length) \o PackUInt(sessionID, 2) \o PackUInt(stream, 1)
                    \o PackUInt(function, 1) \o PackUInt(pType, 1) \o PackUInt(sType, 1)
                    \o PackL(system) \o data]
    ELSE [error |-> TRUE, bytes |-> <<>>]

\* struct_unpack of a short string read as if padded with zero bytes
struct_unpack_padded(count, s) ==
    LET t == IF Len(s) < HeaderSize THEN s \o [i \in 1..(HeaderSize - Len(s)) |-> 0] ELSE s
    IN [error |-> FALSE,
        res |-> << UnpackL(t, 1), UnpackUInt(t, 5, 2), t[7], t[8], t[9], t[10],
                   UnpackL(t, 11), SubSeq(t, HeaderSize + 1, Len(t)) >>]

\* struct.unpack(">LHBBBBL%ds" % count, s): struct.error when the count is
\* negative (bad format) or the string's size differs from the format's
struct_unpack(count, s) ==
    IF count < 0 \/ Len(s) # HeaderSize + count
    THEN [error |-> TRUE, res |-> <<>>]
    ELSE [error |-> FALSE,
          res |-> << UnpackL(s, 1), UnpackUInt(s, 5, 2), s[7], s[8], s[9], s[10],
                     UnpackL(s, 11), SubSeq(s, HeaderSize + 1, Len(s)) >>]

\* x | 0b10000000 on a Python integer (two's complement for negatives)
OrResponseBit(x) == IF (x \div 128) % 2 = 1 THEN x ELSE x + 128

-----------------------------------------------------------------------------
(* Header classes *)

HsmsHeader(system, session_id) ==
    [sessionID |-> session_id, requireResponse |-> FALSE, stream |-> 0, function |-> 0,
     pType |-> 0, sType |-> 1, system |-> system]

HsmsSelectReqHeader(system) ==
    [HsmsHeader(system, 65535) EXCEPT !.requireResponse = FALSE, !.stream = 0,
                                      !.function = 0, !.pType = 0, !.sType = 1]

HsmsSelectRspHeader(system) ==
    [HsmsHeader(system, 65535) EXCEPT !.requireResponse = FALSE, !.stream = 0,
                                      !.function = 0, !.pType = 0, !.sType = 2]

HsmsDeselectReqHeader(system) ==
    [HsmsHeader(system, 65535) EXCEPT !.requireResponse = FALSE, !.stream = 0,
                                      !.function = 0, !.pType = 0, !.sType = 3]

HsmsDeselectRspHeader(system) ==
    [HsmsHeader(system, 65535) EXCEPT !.requireResponse = FALSE, !.stream = 0,
                                      !.function = 0, !.pType = 0, !.sType = 4]

HsmsLinktestReqHeader(system) ==
    [HsmsHeader(system, 65535) EXCEPT !.requireResponse = FALSE, !.stream = 0,
                                      !.function = 0, !.pType = 0, !.sType = 5]

HsmsLinktestRspHeader(system) ==
    [HsmsHeader(system, 65535) EXCEPT !.requireResponse = FALSE, !.stream = 0,
                                      !.function = 0, !.pType = 0, !.sType = 6]

\* HsmsSeparateReqHeader with the undefined SType 8
HsmsSeparateReqHeaderSType8(system) ==
    [HsmsHeader(system, 65535) EXCEPT !.requireResponse = FALSE, !.stream = 0,
                                      !.function = 0, !.pType = 0, !.sType = 8]

HsmsSeparateReqHeader(system) ==
    [HsmsHeader(system, 65535) EXCEPT !.requireResponse = FALSE, !.stream = 0,
                                      !.function = 0, !.pType = 0, !.sType = 9]

HsmsRejectReqHeader(system, s_type, reason) ==
    [HsmsHeader(system, 65535) EXCEPT !.requireResponse = FALSE, !.stream = s_type,
                                      !.function = reason, !.pType = 0, !.sType = 7]

HsmsStreamFunctionHeader(system, stream, function, require_response, session_id) ==
    [HsmsHeader(system, session_id) EXCEPT !.sessionID = session_id,
                                           !.requireResponse = require_response,
                                           !.stream = stream, !.function = function,
                                           !.pType = 0, !.sType = 0, !.system = system]

-----------------------------------------------------------------------------
(* HsmsPacket *)

HsmsPacket(header, data) == [header |-> header, data |-> data]

\* HsmsPacket(): header None -> HsmsHeader(0, 0), data ""
DefaultPacket == HsmsPacket(HsmsHeader(ToWide(0), 0), <<>>)

\* the stream byte handed to struct.pack
header_stream(header) ==
    IF header.requireResponse THEN OrResponseBit(header.stream) ELSE header.stream

encode(p) ==
    struct_pack(ToWide(10 + Len(p.data)), p.header.sessionID, header_stream(p.header),
                p.header.function, p.header.pType, p.header.sType, p.header.system,
                p.data)

\* encode storing the stream byte back into the header
\* (self.header.stream |= 0b10000000 in place of the local header_stream)
encodeSelfStreamWritten(p) == [p EXCEPT !.header.stream = header_stream(p.header)]

\* the packet after encode(): encode assigns no attribute of self or of
\* self.header (header_stream and length are locals)
encodeSelf(p) == p

\* requireResponse of a decoded stream byte
decodeRequireResponse(b) == ((b % 256) \div 128) = 1

\* decodeStream without the 0b01111111 mask
decodeStreamUnmasked(b) == b

\* stream of a decoded stream byte
decodeStream(b) == b % 128

\* decode that refuses a length field different from len(text) - 4
decodeStrictLength(t) ==
    LET u == struct_unpack(Len(t) - 14, t) IN
    IF u.error \/ u.res[1] # ToWide(Len(t) - 4)
    THEN [error |-> TRUE, packet |-> DefaultPacket]
    ELSE [error |-> FALSE,
          packet |-> HsmsPacket(
              [HsmsHeader(u.res[7], u.res[2]) EXCEPT
                   !.requireResponse = decodeRequireResponse(u.res[3]),
                   !.stream = decodeStream(u.res[3]),
                   !.function = u.res[4],
                   !.pType = u.res[5],
                   !.sType = u.res[6]],
              u.res[8])]

decode(t) ==
    LET u == struct_unpack(Len(t) - 14, t) IN
    IF u.error THEN [error |-> TRUE, packet |-> DefaultPacket]
    ELSE [error |-> FALSE,
          packet |-> HsmsPacket(
              [HsmsHeader(u.res[7], u.res[2]) EXCEPT
                   !.requireResponse = decodeRequireResponse(u.res[3]),
                   !.stream = decodeStream(u.res[3]),
                   !.function = u.res[4],
                   !.pType = u.res[5],
                   !.sType = u.res[6]],
              u.res[8])]

-----------------------------------------------------------------------------
(* secsDefaultHandler: stream/function dispatch *)

\* the handler object as the two methods read it
Handler(host, tableHost, tableEquipment) ==
    [isHost |-> host, secsStreamsFunctionsHost |-> tableHost,
     secsStreamsFunctionsEquipment |-> tableEquipment]

\* return None
None == [kind |-> "None", cls |-> <<>>, data |-> <<>>]

\* the table streamFunction selects: the local role's
streamFunctionTable(self) ==
    IF self.isHost THEN self.secsStreamsFunctionsHost
    ELSE self.secsStreamsFunctionsEquipment

\* secsDecodeTable selecting the local role's table, as streamFunction does
secsDecodeTableLocalRole(self) ==
    IF self.isHost THEN self.secsStreamsFunctionsHost
    ELSE self.secsStreamsFunctionsEquipment

\* the table secsDecode selects: the opposite role's
secsDecodeTable(self) ==
    IF self.isHost THEN self.secsStreamsFunctionsEquipment
    ELSE self.secsStreamsFunctionsHost

\* streamFunction indexing the table without the two membership tests: a
\* missing key raises KeyError
streamFunctionUnchecked(self, stream, function) ==
    LET secsStreamsFunctions == streamFunctionTable(self) IN
    IF stream \notin DOMAIN secsStreamsFunctions
       \/ function \notin DOMAIN secsStreamsFunctions[stream]
    THEN [result |-> None, warned |-> FALSE, codecInvoked |-> FALSE,
          raised |-> TRUE, self |-> self]
    ELSE [result |-> [kind |-> "class", cls |-> secsStreamsFunctions[stream][function],
                      data |-> <<>>],
          warned |-> FALSE, codecInvoked |-> FALSE, raised |-> FALSE, self |-> self]

\* streamFunction(stream, function): the class, or None after a warning.
\* raised: an exception left the method; self: the handler after the call.
streamFunction(self, stream, function) ==
    LET secsStreamsFunctions == streamFunctionTable(self) IN
    IF stream \notin DOMAIN secsStreamsFunctions
    THEN [result |-> None, warned |-> TRUE, codecInvoked |-> FALSE,
          raised |-> FALSE, self |-> self]
    ELSE IF function \notin DOMAIN secsStreamsFunctions[stream]
    THEN [result |-> None, warned |-> TRUE, codecInvoked |-> FALSE,
          raised |-> FALSE, self |-> self]
    ELSE [result |-> [kind |-> "class", cls |-> secsStreamsFunctions[stream][function],
                      data |-> <<>>],
          warned |-> FALSE, codecInvoked |-> FALSE, raised |-> FALSE, self |-> self]

\* secsDecode that registers an unknown stream with an empty function map
\* in the selected table (a setdefault in place of the membership test)
secsDecodeInserting(self, p) ==
    LET secsStreamsFunctions == secsDecodeTable(self)
        inserted == [s \in DOMAIN secsStreamsFunctions \cup {p.header.stream} |->
                        IF s \in DOMAIN secsStreamsFunctions
                        THEN secsStreamsFunctions[s] ELSE << >>]
    IN
    IF p.header.stream \notin DOMAIN secsStreamsFunctions
    THEN [result |-> None, warned |-> TRUE, codecInvoked |-> FALSE, raised |-> FALSE,
          self |-> IF self.isHost
                   THEN [self EXCEPT !.secsStreamsFunctionsEquipment = inserted]
                   ELSE [self EXCEPT !.secsStreamsFunctionsHost = inserted]]
    ELSE IF p.header.function \notin DOMAIN secsStreamsFunctions[p.header.stream]
    THEN [result |-> None, warned |-> TRUE, codecInvoked |-> FALSE,
          raised |-> FALSE, self |-> self]
    ELSE [result |-> [kind |-> "object",
                      cls |-> secsStreamsFunctions[p.header.stream][p.header.function],
                      data |-> p.data],
          warned |-> FALSE, codecInvoked |-> TRUE, raised |-> FALSE, self |-> self]

\* secsDecode(packet): an object of the class, fed packet.data, or None
\* after a warning
secsDecode(self, p) ==
    LET secsStreamsFunctions == secsDecodeTable(self) IN
    IF p.header.stream \notin DOMAIN secsStreamsFunctions
    THEN [result |-> None, warned |-> TRUE, codecInvoked |-> FALSE,
          raised |-> FALSE, self |-> self]
    ELSE IF p.header.function \notin DOMAIN secsStreamsFunctions[p.header.stream]
    THEN [result |-> None, warned |-> TRUE, codecInvoked |-> FALSE,
          raised |-> FALSE, self |-> self]
    ELSE [result |-> [kind |-> "object",
                      cls |-> secsStreamsFunctions[p.header.stream][p.header.function],
                      data |-> p.data],
          warned |-> FALSE, codecInvoked |-> TRUE, raised |-> FALSE, self |-> self]

-----------------------------------------------------------------------------
(* Inputs of the codec scenario *)

\* -1, 2, 0x01020304, 2^32 - 1, 2^32
SystemVals   == {ToWide(-1), ToWide(2), Wide(258, 772), Wide(65535, 65535), Wide(65536, 0)}
SessionVals  == {-1, 0, 258, 65536}
StreamVals   == {-1, 0, 3, 127, 128, 255, 256}
FunctionVals == {-1, 0, 4, 255, 256}
PTypeVals    == {-1, 0, 1, 255, 256}
STypeVals    == {-1, 0, 7, 8, 255, 256}
DataBytes    == {0, 255}

RECURSIVE SeqsUpTo(_, _)
SeqsUpTo(S, n) ==
    IF n = 0 THEN {<<>>}
    ELSE SeqsUpTo(S, n - 1) \cup
         {Append(s, b) : s \in {q \in SeqsUpTo(S, n - 1) : Len(q) = n - 1}, b \in S}

Payloads == SeqsUpTo(DataBytes, MaxDataLen)

\* bytes 4..13 of frames the transport may deliver
WireHeaders == { <<255, 255, 0, 0, 0, 5, 0, 0, 0, 2>>,
                 <<1, 2, 131, 4, 9, 0, 1, 2, 3, 4>>,
                 <<0, 100, 200, 255, 255, 7, 255, 255, 255, 255>> }

\* length fields the transport may deliver
\* 0, 10, 11, 12, 2^32 - 1
LengthFields == {ToWide(0), ToWide(10), ToWide(11), ToWide(12), Wide(65535, 65535)}

ReceivedTexts ==
    { SubSeq(PackL(lf) \o h \o d, 1, n) :
        <<lf, h, d, n>> \in { q \in LengthFields \X WireHeaders \X Payloads
                                     \X (0 .. HeaderSize + MaxDataLen) :
                               q[4] <= HeaderSize + Len(q[3]) } }

-----------------------------------------------------------------------------
(* Inputs of the handler scenario *)

\* stream and function numbers of the catalogue and of the lookups
StreamIds   == {1, 99}
FunctionIds == {1, 99}

\* the class registered for (stream, function) in a role's catalogue
SecsClass(role, stream, function) == <<role, stream, function>>

FunctionMaps(role, stream) ==
    { [f \in D |-> SecsClass(role, stream, f)] : D \in SUBSET FunctionIds }

\* every catalogue of a role over StreamIds x FunctionIds, empty and partial
\* ones included
Tables(role) ==
    UNION { { t \in [D -> UNION { FunctionMaps(role, s) : s \in D }] :
                \A s \in D : t[s] \in FunctionMaps(role, s) } :
            D \in SUBSET StreamIds }

EmptyTable == [s \in {} |-> <<>>]

NoCall == [op |-> "none", stream |-> 0, function |-> 0, data |-> <<>>,
           result |-> None, warned |-> FALSE, codecInvoked |-> FALSE,
           raised |-> FALSE]

-----------------------------------------------------------------------------
(* Codec scenario *)

NoCtor == [cls |-> "none", system |-> ToWide(0), stream |-> 0, function |-> 0,
           require_response |-> FALSE, session_id |-> 0]

Init ==
    /\ pc = "idle"
    /\ packet = DefaultPacket
    /\ ctor = NoCtor
    /\ assigned = 0
    /\ text = <<>>
    /\ sent = FALSE
    /\ encodes = 0
    /\ decoded = DefaultPacket
    /\ isHost = TRUE
    /\ secsStreamsFunctionsHost = EmptyTable
    /\ secsStreamsFunctionsEquipment = EmptyTable
    /\ call = NoCall
    /\ before = NoCall
    /\ calls = 0

\* a header class called with its arguments (those it does not take are
\* listed with the value the class fixes)
Called(cls, system, stream, function, require_response, session_id) ==
    [cls |-> cls, system |-> system, stream |-> stream, function |-> function,
     require_response |-> require_response, session_id |-> session_id]

\* HsmsPacket(header, data) built by the sender
Build(c, header, data) ==
    /\ pc' = "built"
    /\ packet' = HsmsPacket(header, data)
    /\ ctor' = c
    /\ assigned' = 0
    /\ text' = <<>>
    /\ sent' = FALSE
    /\ encodes' = 0
    /\ decoded' = DefaultPacket
    /\ UNCHANGED handlerVars

NewSelectReq ==
    /\ pc = "idle"
    /\ \E s \in SystemVals, d \in Payloads : Build(Called("HsmsSelectReqHeader", s, 0, 0, FALSE, 65535), HsmsSelectReqHeader(s), d)

NewSelectRsp ==
    /\ pc = "idle"
    /\ \E s \in SystemVals, d \in Payloads : Build(Called("HsmsSelectRspHeader", s, 0, 0, FALSE, 65535), HsmsSelectRspHeader(s), d)

NewDeselectReq ==
    /\ pc = "idle"
    /\ \E s \in SystemVals, d \in Payloads : Build(Called("HsmsDeselectReqHeader", s, 0, 0, FALSE, 65535), HsmsDeselectReqHeader(s), d)

NewDeselectRsp ==
    /\ pc = "idle"
    /\ \E s \in SystemVals, d \in Payloads : Build(Called("HsmsDeselectRspHeader", s, 0, 0, FALSE, 65535), HsmsDeselectRspHeader(s), d)

NewLinktestReq ==
    /\ pc = "idle"
    /\ \E s \in SystemVals, d \in Payloads : Build(Called("HsmsLinktestReqHeader", s, 0, 0, FALSE, 65535), HsmsLinktestReqHeader(s), d)

NewLinktestRsp ==
    /\ pc = "idle"
    /\ \E s \in SystemVals, d \in Payloads : Build(Called("HsmsLinktestRspHeader", s, 0, 0, FALSE, 65535), HsmsLinktestRspHeader(s), d)

NewSeparateReq ==
    /\ pc = "idle"
    /\ \E s \in SystemVals, d \in Payloads : Build(Called("HsmsSeparateReqHeader", s, 0, 0, FALSE, 65535), HsmsSeparateReqHeader(s), d)


NewRejectReq ==
    /\ pc = "idle"
    /\ \E s \in SystemVals, t \in StreamVals, r \in FunctionVals, d \in Payloads :
           Build(Called("HsmsRejectReqHeader", s, t, r, FALSE, 65535),
                 HsmsRejectReqHeader(s, t, r), d)

NewStreamFunction ==
    /\ pc = "idle"
    /\ \E s \in SystemVals, st \in StreamVals, f \in FunctionVals, rr \in BOOLEAN,
          sid \in SessionVals, d \in Payloads :
           Build(Called("HsmsStreamFunctionHeader", s, st, f, rr, sid),
                 HsmsStreamFunctionHeader(s, st, f, rr, sid), d)

\* packet.header.pType = v / packet.header.sType = v: the two attributes no
\* header class takes as a parameter
AssignPType ==
    /\ pc = "built" /\ assigned < MaxAssign
    /\ \E v \in PTypeVals : packet' = [packet EXCEPT !.header.pType = v]
    /\ assigned' = assigned + 1
    /\ UNCHANGED <<pc, ctor, text, sent, encodes, decoded>>
    /\ UNCHANGED handlerVars

AssignSType ==
    /\ pc = "built" /\ assigned < MaxAssign
    /\ \E v \in STypeVals : packet' = [packet EXCEPT !.header.sType = v]
    /\ assigned' = assigned + 1
    /\ UNCHANGED <<pc, ctor, text, sent, encodes, decoded>>
    /\ UNCHANGED handlerVars

\* text = packet.encode(), the first time or again on the same packet;
\* struct.error leaves no bytes
Encode ==
    /\ pc \in {"built", "encoded", "encode_error"}
    /\ encodes < MaxEncodes
    /\ LET e == encode(packet) IN
         /\ pc' = IF e.error THEN "encode_error" ELSE "encoded"
         /\ text' = e.bytes
         /\ sent' = ~e.error
    /\ packet' = encodeSelf(packet)
    /\ encodes' = encodes + 1
    /\ UNCHANGED <<ctor, assigned, decoded>>
    /\ UNCHANGED handlerVars

\* the transport hands over bytes that no local encode produced
Receive ==
    /\ pc = "idle"
    /\ \E t \in ReceivedTexts : text' = t
    /\ pc' = "received"
    /\ packet' = DefaultPacket
    /\ ctor' = NoCtor
    /\ assigned' = 0
    /\ sent' = FALSE
    /\ encodes' = 0
    /\ decoded' = DefaultPacket
    /\ UNCHANGED handlerVars

\* decoded = HsmsPacket.decode(text); struct.error returns no packet
Decode ==
    /\ pc \in {"encoded", "received"}
    /\ LET r == decode(text) IN
         /\ pc' = IF r.error THEN "decode_error" ELSE "decoded"
         /\ decoded' = r.packet
    /\ UNCHANGED <<packet, ctor, assigned, text, sent, encodes>>
    /\ UNCHANGED handlerVars

Next ==
    \/ NewSelectReq \/ NewSelectRsp \/ NewDeselectReq \/ NewDeselectRsp
    \/ NewLinktestReq \/ NewLinktestRsp \/ NewSeparateReq
    \/ NewRejectReq \/ NewStreamFunction
    \/ AssignPType \/ AssignSType
    \/ Encode \/ Receive \/ Decode

Spec == Init /\ [][Next]_vars

-----------------------------------------------------------------------------
(* Handler scenario *)

\* the class attributes hold a copy of a catalogue; isHost is True after
\* __init__ and False in an equipment model
InitHandler ==
    /\ pc = "idle"
    /\ packet = DefaultPacket
    /\ ctor = NoCtor
    /\ assigned = 0
    /\ text = <<>>
    /\ sent = FALSE
    /\ encodes = 0
    /\ decoded = DefaultPacket
    /\ isHost \in BOOLEAN
    /\ secsStreamsFunctionsHost \in Tables("Host")
    /\ secsStreamsFunctionsEquipment \in Tables("Equipment")
    /\ call = NoCall
    /\ before = NoCall
    /\ calls = 0

Self == Handler(isHost, secsStreamsFunctionsHost, secsStreamsFunctionsEquipment)

\* what a call leaves behind
Returned(op, stream, function, data, r) ==
    /\ call' = [op |-> op, stream |-> stream, function |-> function, data |-> data,
                result |-> r.result, warned |-> r.warned,
                codecInvoked |-> r.codecInvoked, raised |-> r.raised]
    /\ before' = IF /\ call.op = op /\ call.stream = stream
                    /\ call.function = function /\ call.data = data
                 THEN call ELSE NoCall
    /\ calls' = calls + 1
    /\ isHost' = r.self.isHost
    /\ secsStreamsFunctionsHost' = r.self.secsStreamsFunctionsHost
    /\ secsStreamsFunctionsEquipment' = r.self.secsStreamsFunctionsEquipment
    /\ UNCHANGED codecVars

StreamFunctionCall ==
    /\ calls < MaxCalls
    /\ \E stream \in StreamIds, function \in FunctionIds :
           Returned("streamFunction", stream, function, <<>>,
                    streamFunction(Self, stream, function))

SecsDecodeCall ==
    /\ calls < MaxCalls
    /\ \E stream \in StreamIds, function \in FunctionIds, d \in Payloads :
           LET p == HsmsPacket(
                        HsmsStreamFunctionHeader(ToWide(2), stream, function, FALSE, 0), d)
           IN Returned("secsDecode", stream, function, d, secsDecode(Self, p))

NextHandler == StreamFunctionCall \/ SecsDecodeCall

SpecHandler == InitHandler /\ [][NextHandler]_vars

-----------------------------------------------------------------------------
(* Properties of the codec scenario (Spec) *)

\* a header whose fields fit their wire widths, the stream its 7 bits
FitsWidths(h) ==
    /\ h.sessionID \in 0..65535
    /\ h.stream \in 0..127
    /\ h.function \in 0..255
    /\ h.pType \in 0..255
    /\ h.sType \in 0..255
    /\ h.system.hi \in 0..65535 /\ h.system.lo \in 0..65535
    /\ h.requireResponse \in BOOLEAN

\* the sender's encode has run, and decode after it if encode returned bytes
EncodeRan == pc \in {"encoded", "encode_error"} \/ (sent /\ pc \in {"decoded", "decode_error"})
RoundTripRan == sent /\ pc \in {"decoded", "decode_error"}

\* C1: for every header whose fields fit their widths (stream 0..127) and
\* every payload, encode succeeds and decode of its bytes succeeds and returns
\* a packet with the same seven header fields and the same data.
C1_RoundTrip ==
    /\ (pc = "encode_error" => ~FitsWidths(packet.header))
    /\ (RoundTripRan /\ FitsWidths(packet.header) =>
            /\ pc = "decoded"
            /\ decoded.header.sessionID = packet.header.sessionID
            /\ decoded.header.stream = packet.header.stream
            /\ decoded.header.function = packet.header.function
            /\ decoded.header.pType = packet.header.pType
            /\ decoded.header.sType = packet.header.sType
            /\ decoded.header.system = packet.header.system
            /\ decoded.header.requireResponse = packet.header.requireResponse
            /\ decoded.data = packet.data)

\* stream 3 with requireResponse and a payload came back as stream 3 with
\* requireResponse
C1_Witness ==
    /\ RoundTripRan /\ pc = "decoded"
    /\ packet.header.stream = 3 /\ packet.header.requireResponse
    /\ packet.data # <<>>
    /\ decoded.header.stream = 3 /\ decoded.header.requireResponse

\* C2: for every valid header and payload encode returns 14 + len(payload)
\* bytes: 4-byte big-endian length 10 + len(payload), 2-byte sessionID, the
\* stream byte, function, pType, sType, 4-byte system, then the payload; the
\* linktest request with system 2 encodes to 00 00 00 0A FF FF 00 00 00 05
\* 00 00 00 02.
C2_EncodeLayout ==
    /\ (pc = "encode_error" => ~FitsWidths(packet.header))
    /\ (pc = "encoded" /\ FitsWidths(packet.header) =>
            /\ Len(text) = 14 + Len(packet.data)
            /\ \A i \in 1..Len(text) : text[i] \in 0..255
            /\ text[1] = 0 /\ text[2] = 0 /\ text[3] = 0
            /\ text[4] = 10 + Len(packet.data)
            /\ text[5] * 256 + text[6] = packet.header.sessionID
            /\ text[7] = packet.header.stream
                         + (IF packet.header.requireResponse THEN 128 ELSE 0)
            /\ text[8] = packet.header.function
            /\ text[9] = packet.header.pType
            /\ text[10] = packet.header.sType
            /\ text[11] * 256 + text[12] = packet.header.system.hi
            /\ text[13] * 256 + text[14] = packet.header.system.lo
            /\ \A i \in 1..Len(packet.data) : text[14 + i] = packet.data[i])
    /\ (pc = "encoded" /\ ctor.cls = "HsmsLinktestReqHeader" /\ assigned = 0
            /\ ctor.system = ToWide(2) /\ packet.data = <<>> =>
            text = <<0, 0, 0, 10, 255, 255, 0, 0, 0, 5, 0, 0, 0, 2>>)

\* the linktest request with system 2 and no payload has been encoded
C2_Witness ==
    /\ pc = "encoded" /\ ctor.cls = "HsmsLinktestReqHeader" /\ assigned = 0
    /\ ctor.system = ToWide(2) /\ packet.data = <<>>
    /\ Len(text) = 14

\* C3: for every header with stream in 0..255 the encoded stream byte is
\* (stream & 0x7F) | (0x80 if requireResponse else 0), and a header with
\* stream >= 128 and requireResponse false decodes with requireResponse false.
C3_TopBitDiscarded ==
    /\ (pc = "encoded" /\ packet.header.stream \in 0..255 =>
            text[7] = (packet.header.stream % 128)
                      + (IF packet.header.requireResponse THEN 128 ELSE 0))
    /\ (RoundTripRan /\ pc = "decoded" /\ packet.header.stream \in 128..255
            /\ ~packet.header.requireResponse =>
            ~decoded.header.requireResponse)

\* the variant code of each control header class
VariantCode ==
    [HsmsSelectReqHeader |-> 1, HsmsSelectRspHeader |-> 2, HsmsDeselectReqHeader |-> 3,
     HsmsDeselectRspHeader |-> 4, HsmsLinktestReqHeader |-> 5,
     HsmsLinktestRspHeader |-> 6, HsmsRejectReqHeader |-> 7,
     HsmsSeparateReqHeader |-> 9]

\* a header class has returned and no attribute was assigned since
JustBuilt == ctor.cls # "none" /\ assigned = 0

\* C4: every control header class returns sessionID 0xFFFF, pType 0,
\* requireResponse false, system the transaction id given and sType its
\* variant code; the data header class returns sType 0, pType 0 and the
\* sessionID, stream, function, requireResponse and system given.
C4_HeaderConstructors ==
    /\ (JustBuilt /\ ctor.cls \in DOMAIN VariantCode =>
            /\ packet.header.sessionID = 65535
            /\ packet.header.pType = 0
            /\ packet.header.requireResponse = FALSE
            /\ packet.header.system = ctor.system
            /\ packet.header.sType = VariantCode[ctor.cls])
    /\ (JustBuilt /\ ctor.cls = "HsmsStreamFunctionHeader" =>
            /\ packet.header.sType = 0
            /\ packet.header.pType = 0
            /\ packet.header.sessionID = ctor.session_id
            /\ packet.header.stream = ctor.stream
            /\ packet.header.function = ctor.function
            /\ packet.header.requireResponse = ctor.require_response
            /\ packet.header.system = ctor.system)

\* a separate request header has been built for transaction id 2^32 - 1
C4_Witness ==
    /\ pc = "built" /\ JustBuilt /\ ctor.cls = "HsmsSeparateReqHeader"
    /\ ctor.system = Wide(65535, 65535)
    /\ packet.header.sType = 9 /\ packet.header.sessionID = 65535

\* the value of the 4-byte length field of text, and len(text) - 4
LengthFieldMatches(t) ==
    /\ t[1] = 0 /\ t[2] = 0
    /\ t[3] * 256 + t[4] = Len(t) - 4

DecodeRan == pc \in {"decoded", "decode_error"}

\* C5 as stated: every input of at least 14 bytes whose length field differs
\* from len(input) - 4 makes decode fail and return no packet.
C5_StrictLength ==
    DecodeRan /\ Len(text) >= 14 /\ ~LengthFieldMatches(text) => pc = "decode_error"

\* C5 amended: decode does not look at the length field: every input of at
\* least 14 bytes, whatever its length field, decodes to a packet whose
\* header comes from offsets 4..13 and whose data is every byte after
\* offset 14.
C5_LengthFieldIgnored ==
    DecodeRan /\ Len(text) >= 14 =>
        /\ pc = "decoded"
        /\ decoded.header.sessionID = text[5] * 256 + text[6]
        /\ decoded.header.stream = text[7] % 128
        /\ decoded.header.requireResponse = (text[7] >= 128)
        /\ decoded.header.function = text[8]
        /\ decoded.header.pType = text[9]
        /\ decoded.header.sType = text[10]
        /\ decoded.header.system.hi = text[11] * 256 + text[12]
        /\ decoded.header.system.lo = text[13] * 256 + text[14]
        /\ Len(decoded.data) = Len(text) - 14
        /\ \A i \in 1..Len(decoded.data) : decoded.data[i] = text[14 + i]

\* the 14 bytes of the decode docstring, length field 11, were decoded
C5_Witness ==
    /\ pc = "decoded" /\ ~sent
    /\ text = <<0, 0, 0, 11, 255, 255, 0, 0, 0, 5, 0, 0, 0, 2>>
    /\ decoded.header.sType = 5 /\ decoded.header.system = ToWide(2)

\* C6: decode fails and yields no packet for every input shorter than 14
\* bytes, the empty input and 13 bytes included.
C6_ShortInputFails ==
    DecodeRan /\ Len(text) < 14 => pc = "decode_error" /\ decoded = DefaultPacket

\* decode has refused 13 bytes
C6_Witness == pc = "decode_error" /\ Len(text) = 13

\* some field of the header is outside the range of its wire field
OutOfRange(h) ==
    \/ h.sessionID \notin 0..65535
    \/ h.system.hi \notin 0..65535
    \/ h.stream \notin 0..255
    \/ h.function \notin 0..255
    \/ h.pType \notin 0..255
    \/ h.sType \notin 0..255

\* C7: whenever sessionID, system, stream, function, pType or sType is
\* outside its range, encode fails with a range error and returns no bytes.
C7_NoMasking ==
    EncodeRan /\ OutOfRange(packet.header) =>
        pc = "encode_error" /\ text = <<>> /\ ~sent

\* encode has refused stream 256 with requireResponse set
C7_Witness ==
    /\ pc = "encode_error" /\ packet.header.stream = 256
    /\ packet.header.requireResponse
    /\ packet.header.function \in 0..255 /\ packet.header.sessionID \in 0..65535
    /\ packet.header.system.hi \in 0..65535

\* C10: for every rejected type t and reason r in 0..255 and transaction id
\* s, HsmsRejectReqHeader(s, t, r) has stream t, function r, sType 7, and
\* decoding its encoding yields stream t, function r, sType 7, system s and
\* requireResponse false.
C10_RejectPreserved ==
    /\ (JustBuilt /\ ctor.cls = "HsmsRejectReqHeader" =>
            /\ packet.header.stream = ctor.stream
            /\ packet.header.function = ctor.function
            /\ packet.header.sType = 7)
    /\ (RoundTripRan /\ JustBuilt /\ ctor.cls = "HsmsRejectReqHeader"
            /\ ctor.stream \in 0..255 /\ ctor.function \in 0..255
            /\ ctor.system.hi \in 0..65535 =>
            /\ pc = "decoded"
            /\ decoded.header.stream = ctor.stream
            /\ decoded.header.function = ctor.function
            /\ decoded.header.sType = 7
            /\ decoded.header.system = ctor.system
            /\ decoded.header.requireResponse = FALSE)

-----------------------------------------------------------------------------
(* Properties of the handler scenario (SpecHandler) *)

\* (stream, function) is registered in a table
Registered(table, stream, function) ==
    stream \in DOMAIN table /\ function \in DOMAIN table[stream]

LocalTable ==
    IF isHost THEN secsStreamsFunctionsHost ELSE secsStreamsFunctionsEquipment
OppositeTable ==
    IF isHost THEN secsStreamsFunctionsEquipment ELSE secsStreamsFunctionsHost
LocalRole == IF isHost THEN "Host" ELSE "Equipment"
OppositeRole == IF isHost THEN "Equipment" ELSE "Host"

\* C8: secsDecode resolves (stream, function) only in the opposite role's
\* table and streamFunction only in the local role's table: each finds a
\* class exactly when that table registers the pair, and the class found is
\* that table's.
C8_RoleTables ==
    /\ (call.op = "secsDecode" =>
            /\ (call.result.kind = "None")
                   <=> ~Registered(OppositeTable, call.stream, call.function)
            /\ (call.result.kind # "None" =>
                   /\ call.result.kind = "object"
                   /\ call.result.cls =
                          SecsClass(OppositeRole, call.stream, call.function)))
    /\ (call.op = "streamFunction" =>
            /\ (call.result.kind = "None")
                   <=> ~Registered(LocalTable, call.stream, call.function)
            /\ (call.result.kind # "None" =>
                   /\ call.result.kind = "class"
                   /\ call.result.cls =
                          SecsClass(LocalRole, call.stream, call.function)))

\* a host's secsDecode reported a pair registered only in the Host table as
\* not found
C8_Witness ==
    /\ isHost /\ call.op = "secsDecode"
    /\ Registered(secsStreamsFunctionsHost, call.stream, call.function)
    /\ ~Registered(secsStreamsFunctionsEquipment, call.stream, call.function)
    /\ call.result.kind = "None"

\* the table the last call selected
SelectedTable == IF call.op = "secsDecode" THEN OppositeTable ELSE LocalTable

\* C9: when the stream is absent from the selected table or the function is
\* absent under it, streamFunction and secsDecode return None, raise nothing
\* and invoke no codec, and the same call repeated returns the same.
C9_NotFoundIsValue ==
    call.op # "none" /\ ~Registered(SelectedTable, call.stream, call.function) =>
        /\ call.result = None
        /\ ~call.raised
        /\ ~call.codecInvoked
        /\ call.warned
        /\ (before.op # "none" =>
                before.result = call.result /\ before.raised = call.raised)

\* streamFunction(99, 99) was repeated against a partial table and returned
\* None both times
C9_Witness ==
    /\ call.op = "streamFunction" /\ call.stream = 99 /\ call.function = 99
    /\ before.op = "streamFunction" /\ before.result = None
    /\ call.result = None
    /\ DOMAIN LocalTable # {}
    /\ calls >= 2

\* C11: the dispatch tables are read-only after initialisation: no
\* streamFunction or secsDecode call, found or not found, under either role,
\* adds, removes or replaces an entry of the Host or the Equipment table, and
\* none changes isHost.
C11_TablesReadOnly ==
    [][/\ secsStreamsFunctionsHost' = secsStreamsFunctionsHost
       /\ secsStreamsFunctionsEquipment' = secsStreamsFunctionsEquipment
       /\ isHost' = isHost]_vars

\* a second or later call, a secsDecode of a stream its table does not
\* hold, has returned None while the other table holds that stream
C11_Witness ==
    /\ calls >= 2
    /\ call.op = "secsDecode" /\ call.result = None
    /\ call.stream \notin DOMAIN OppositeTable
    /\ call.stream \in DOMAIN LocalTable

-----------------------------------------------------------------------------
(* Purity of encode (Spec) *)

\* C12: encode leaves every header field (header.stream too when
\* requireResponse is set) and the data unchanged, and a further encode of
\* the same packet returns the same as the one before: the same bytes, or
\* the same refusal.
C12_EncodePure ==
    [][encodes' = encodes + 1 =>
          /\ packet'.header = packet.header
          /\ packet'.data = packet.data
          /\ (encodes >= 1 => text' = text /\ sent' = sent /\ pc' = pc)]_vars

\* stream 3 with requireResponse and a payload has been encoded twice: the
\* header still holds stream 3 and the bytes hold 0x83
C12_Witness ==
    /\ encodes = 2 /\ pc = "encoded"
    /\ packet.header.stream = 3 /\ packet.header.requireResponse
    /\ packet.data # <<>>
    /\ text[7] = 131

=============================================================================
